---- MODULE Spec2Model ----
(***************************************************************************)
(* Model of src/App.tsx: the star-collecting platformer glue code.         *)
(*                                                                         *)
(* The module-level bindings of App.tsx (scoreStore, player, stars, bombs, *)
(* cursors, gameOver) are the variables.  The callbacks update,            *)
(* collectStar and hitBomb are the actions.  The engine that invokes them  *)
(* is modelled only as far as the callbacks can observe it:                *)
(*   - the arcade world update, which is skipped once the world is paused  *)
(*     and which dispatches the overlap/collider callbacks registered in   *)
(*     create (lines 106-107) while it runs.  physics.pause() only stops   *)
(*     FUTURE world updates: the update in flight finishes its collider    *)
(*     pass, so callbacks can still be dispatched after hitBomb has run;   *)
(*   - the keyboard state polled through cursors;                          *)
(*   - the body fields the callbacks read (player.x, body.touching.down).  *)
(***************************************************************************)
EXTENDS Integers, Sequences, FiniteSets, TLC

VARIABLES scoreStore, player, stars, bombs, cursors, gameOver, world,
          collected, hits, frame, frozen

vars == <<scoreStore, player, stars, bombs, cursors, gameOver, world,
          collected, hits, frame, frozen>>

-----------------------------------------------------------------------------
(* Bounds of the exploration.                                              *)

\* collectStar invocations explored when stars are collected in any order
MaxCollected == 13
\* collectStar invocations explored when stars are collected left to right
MaxCollectedInOrder == 25
\* hitBomb invocations explored
MaxHits == 2
\* interior sample points of a random integer range (its two ends are always kept)
BetweenSteps == 1

-----------------------------------------------------------------------------
(* Program constants.                                                      *)

\* stars group: repeat: 11 creates 1 + 11 children
StarsRepeat == 11
StarCount == StarsRepeat + 1
StarIds == 1..StarCount
\* setXY: { x: 12, y: 0, stepX: 70 }
StarFirstX == 12
StarStepX == 70
\* scene.physics.add.sprite(100, 450, 'dude')
PlayerStartX == 100
\* config.width, and the x that splits the field in collectStar
WorldWidth == 800
HalfWidth == 400
\* bombs.create(x, 16, 'bomb')
BombY == 16
\* bomb.setVelocity(Between(-200, 200), 20)
BombSpeedX == 200
BombVelocityY == 20
\* setVelocityX(-160) / setVelocityX(160) / setVelocityY(-330)
WalkSpeed == 160
JumpSpeed == 330
\* scoreStore.score += 10
StarScore == 10

NoAnim == "none"
NoTint == "none"
Red == "0xff0000"

-----------------------------------------------------------------------------
(* Engine functions the callbacks call.                                    *)

\* Phaser.Math.Between(min, max): a random integer of min..max, BOTH ends
\* included (floor(random * (max - min + 1) + min)).  The outcomes explored
\* are the two ends and BetweenSteps - 1 evenly spaced interior points.
Between(min, max) ==
    {min, max} \cup
    { min + k * ((max - min) \div BetweenSteps) : k \in 0..BetweenSteps }

\* Group.countActive(true): the number of children whose active flag is set
countActive(group) == Cardinality({ i \in DOMAIN group : group[i].active })

\* star.disableBody(true, true): body disabled, game object deactivated and hidden
disableBody(star) ==
    [star EXCEPT !.enable = FALSE, !.active = FALSE, !.visible = FALSE]

\* child.enableBody(true, child.x, 0, true, true): body reset to (child.x, 0)
\* and enabled, game object activated and shown
enableBody(star) ==
    [star EXCEPT !.enable = TRUE, !.active = TRUE, !.visible = TRUE]

-----------------------------------------------------------------------------
(* collectStar, lines 133-151.                                             *)

\* plausible slip: `score = 10` for `score += 10`
AddScoreAssigned(score) == StarScore

\* line 136: scoreStore.score += 10
AddScore(score) == score + StarScore

\* plausible slip: the wave is reset while one star is still active
WaveClearedEarly(group) == countActive(group) <= 1

\* line 137: stars.countActive(true) === 0
WaveCleared(group) == countActive(group) = 0

\* plausible slip: the stars are left disabled
ResetStarsSkipped(group) == group

\* lines 140-142: stars.children.iterate(child => child.enableBody(...))
ResetStars(group) == [ i \in DOMAIN group |-> enableBody(group[i]) ]

\* plausible slip: `<=` for `<` in the side test
BombSpawnXsInclusiveSide(px) ==
    IF px <= HalfWidth THEN Between(HalfWidth, WorldWidth) ELSE Between(0, HalfWidth)

\* line 144: (player.x < 400) ? Between(400, 800) : Between(0, 400)
BombSpawnXs(px) ==
    IF px < HalfWidth THEN Between(HalfWidth, WorldWidth) ELSE Between(0, HalfWidth)

\* lines 145-149.  setBounce, setCollideWorldBounds and setVelocity act on the
\* body; `bomb.allowGravity = false` assigns a property of the sprite object
\* itself, so the body's own allowGravity keeps the value the engine gave it
\* when the body was created (true).
NewBomb(x, vx) ==
    [ x |-> x, y |-> BombY,
      bounce |-> 1,
      collideWorldBounds |-> TRUE,
      velocityX |-> vx, velocityY |-> BombVelocityY,
      allowGravity |-> FALSE,
      body |-> [ allowGravity |-> TRUE ] ]

\* The overlap registered at line 106 calls collectStar from the collider pass
\* of a world update, and only for a star whose body is enabled.
collectStar(star) ==
    /\ world.stepping
    /\ stars[star].enable
    /\ LET disabled == [stars EXCEPT ![star] = disableBody(@)]
       IN  /\ scoreStore' = [scoreStore EXCEPT !.score = AddScore(@)]
           /\ IF WaveCleared(disabled)
              THEN /\ stars' = ResetStars(disabled)
                   /\ \E x \in BombSpawnXs(player.x) :
                      \E vx \in Between(-BombSpeedX, BombSpeedX) :
                         bombs' = Append(bombs, NewBomb(x, vx))
              ELSE /\ stars' = disabled
                   /\ bombs' = bombs
    /\ collected' = collected + 1
    /\ UNCHANGED <<player, cursors, gameOver, world, hits, frame, frozen>>

-----------------------------------------------------------------------------
(* hitBomb, lines 153-159.                                                 *)

\* plausible slip: the pause call is missing
PauseWorldSkipped(w) == w

\* line 155: this.physics.pause()
PauseWorld(w) == [w EXCEPT !.isPaused = TRUE]

\* lines 156-157: player.setTint(0xff0000); player.anims.play('turn')
HitPlayer(p) == [p EXCEPT !.tint = Red, !.anim = "turn"]

\* plausible slip: the flag is toggled instead of set
GameOverToggled(g) == ~g

\* line 158: gameOver = true
GameOverAfterHit(g) == TRUE

\* The collider registered at line 107 calls hitBomb from the collider pass of
\* a world update, once per bomb body that touches the player: a pass that has
\* already called hitBomb goes on to the remaining bodies and steps.
\* hits counts the executions of line 158; frozen keeps the player as the
\* first hitBomb left it.
hitBomb ==
    /\ world.stepping
    /\ Len(bombs) > 0
    /\ hits < MaxHits
    /\ world' = PauseWorld(world)
    /\ player' = HitPlayer(player)
    /\ gameOver' = GameOverAfterHit(gameOver)
    /\ hits' = hits + 1
    /\ frozen' = IF gameOver THEN frozen ELSE HitPlayer(player)
    /\ UNCHANGED <<scoreStore, stars, bombs, cursors, collected, frame>>

-----------------------------------------------------------------------------
(* update, lines 110-131.                                                  *)

\* plausible slip: the early return is missing
UpdateRunsAlways(g) == TRUE

\* lines 111-113: if (gameOver) return
UpdateRuns(g) == ~g

\* plausible slip: the right key is tested first
HorizontalVelocityRightFirst(c) ==
    IF c.right THEN WalkSpeed ELSE IF c.left THEN -WalkSpeed ELSE 0

\* lines 115-126: the horizontal velocity chosen from the cursor keys
HorizontalVelocity(c) ==
    IF c.left THEN -WalkSpeed ELSE IF c.right THEN WalkSpeed ELSE 0

\* lines 115-126: the animation played with it
HorizontalAnim(c) ==
    IF c.left THEN "left" ELSE IF c.right THEN "right" ELSE "turn"

\* plausible slip: the touching-down test is missing
JumpsAirborne(c, p) == c.up

\* line 128: cursors.up.isDown && player.body.touching.down
Jumps(c, p) == c.up /\ p.touchingDown

\* lines 115-130 applied to the player
MovePlayer(p, c) ==
    [p EXCEPT !.velocityX = HorizontalVelocity(c),
              !.anim = HorizontalAnim(c),
              !.velocityY = IF Jumps(c, p) THEN -JumpSpeed ELSE @]

\* The scene's update runs once per frame, after the world update of that
\* frame has returned; keys is the keyboard state the frame polled.  frame
\* flips at every call, so that a call that changes nothing is still a step.
update(keys) ==
    /\ ~world.stepping
    /\ cursors' = keys
    /\ player' = IF UpdateRuns(gameOver) THEN MovePlayer(player, keys) ELSE player
    /\ frame' = 1 - frame
    /\ UNCHANGED <<scoreStore, stars, bombs, gameOver, world, collected, hits, frozen>>

-----------------------------------------------------------------------------
(* The arcade world update that dispatches the collision callbacks.        *)

\* player.x samples on both sides of the 400 split
PlayerXs == {HalfWidth - 1, HalfWidth}
\* vertical velocities the integration leaves (resting, falling)
EngineVelocityYs == {0, 5}

\* World.update: returns at once when the world is paused; otherwise moves
\* the bodies and then runs the collider pass.  What the integration leaves
\* in the fields the callbacks read is an input: the player's x, its vertical
\* velocity and whether it rests on a surface.
BeginWorldUpdate(x, vy, down) ==
    /\ ~world.isPaused
    /\ ~world.stepping
    /\ world' = [world EXCEPT !.stepping = TRUE]
    /\ player' = [player EXCEPT !.x = x, !.velocityY = vy, !.touchingDown = down]
    /\ UNCHANGED <<scoreStore, stars, bombs, cursors, gameOver,
                   collected, hits, frame, frozen>>

EndWorldUpdate ==
    /\ world.stepping
    /\ world' = [world EXCEPT !.stepping = FALSE]
    /\ UNCHANGED <<scoreStore, player, stars, bombs, cursors, gameOver,
                   collected, hits, frame, frozen>>

-----------------------------------------------------------------------------
(* The state after create, lines 15-26 and 38-108.                         *)

Init ==
    /\ scoreStore = [ score |-> 0 ]
    /\ player = [ x |-> PlayerStartX, velocityX |-> 0, velocityY |-> 0,
                  anim |-> NoAnim, tint |-> NoTint, touchingDown |-> FALSE ]
    /\ stars = [ i \in StarIds |->
                   [ x |-> StarFirstX + (i - 1) * StarStepX,
                     enable |-> TRUE, active |-> TRUE, visible |-> TRUE ] ]
    /\ bombs = << >>
    /\ cursors = [ left |-> FALSE, right |-> FALSE, up |-> FALSE ]
    /\ gameOver = FALSE
    /\ world = [ isPaused |-> FALSE, stepping |-> FALSE ]
    /\ collected = 0
    /\ hits = 0
    /\ frame = 0
    /\ frozen = [ x |-> PlayerStartX, velocityX |-> 0, velocityY |-> 0,
                  anim |-> NoAnim, tint |-> NoTint, touchingDown |-> FALSE ]

AllKeys == [ left : BOOLEAN, right : BOOLEAN, up : BOOLEAN ]
IdleKeys == { [ left |-> FALSE, right |-> FALSE, up |-> FALSE ] }

EnabledStars == { i \in StarIds : stars[i].enable }
LeftmostStar == { i \in EnabledStars : \A j \in EnabledStars : i <= j }

\* Stars collected in any order; the keyboard is left alone.
Next ==
    \/ \E x \in PlayerXs : BeginWorldUpdate(x, 0, TRUE)
    \/ \E star \in EnabledStars : collected < MaxCollected /\ collectStar(star)
    \/ hitBomb
    \/ EndWorldUpdate
    \/ \E keys \in IdleKeys : update(keys)

Spec == Init /\ [][Next]_vars

\* Every key combination; stars collected left to right.
NextInput ==
    \/ \E x \in PlayerXs, vy \in EngineVelocityYs, down \in BOOLEAN :
          BeginWorldUpdate(x, vy, down)
    \/ \E star \in LeftmostStar : collected < MaxCollectedInOrder /\ collectStar(star)
    \/ hitBomb
    \/ EndWorldUpdate
    \/ \E keys \in AllKeys : update(keys)

SpecInput == Init /\ [][NextInput]_vars

-----------------------------------------------------------------------------
(* Properties.                                                             *)

ActiveStars == { i \in StarIds : stars[i].active }
LastBomb == bombs[Len(bombs)]

\* C1: the score is 0 initially and always equals 10 times the number of
\* collectStar invocations so far; update and hitBomb never change it.
C1_ScoreIsTenPerStar ==
    /\ scoreStore.score = 10 * collected
    /\ (collected = 0 => scoreStore.score = 0)

\* C1 witness: stars collected in two waves, with an update and a hitBomb
\* among the callbacks that ran.
C1_Witness ==
    /\ collected = 13 /\ scoreStore.score = 130
    /\ hits = 1 /\ frame = 1

\* C2: a collectStar that disables the last active star leaves all 12 stars
\* active and the bomb group larger by exactly one; a collectStar that leaves
\* a star active spawns no bomb and re-enables no star.
C2_WaveReset ==
    [][ collected' = collected + 1 =>
          IF Cardinality(ActiveStars) = 1
          THEN /\ ActiveStars' = StarIds
               /\ Cardinality(ActiveStars') = 12
               /\ Len(bombs') = Len(bombs) + 1
               /\ SubSeq(bombs', 1, Len(bombs)) = bombs
          ELSE /\ bombs' = bombs
               /\ ActiveStars' \subseteq ActiveStars
               /\ Cardinality(ActiveStars') = Cardinality(ActiveStars) - 1 ]_vars

\* C2 witness: the twelfth star has just been collected.
C2_Witness ==
    /\ collected = 12 /\ Len(bombs) = 1
    /\ ActiveStars = StarIds

\* C3 as stated: the spawn x is in [400,800) when player.x < 400 and in
\* [0,400) otherwise, both intervals half-open.
C3_HalfOpen ==
    [][ Len(bombs') = Len(bombs) + 1 =>
          IF player.x < 400
          THEN LastBomb'.x >= 400 /\ LastBomb'.x < 800
          ELSE LastBomb'.x >= 0 /\ LastBomb'.x < 400 ]_vars

\* C3 amended: the spawn x is in [400,800] when player.x < 400 and in
\* [0,400] otherwise, both intervals closed.
C3_Closed ==
    [][ Len(bombs') = Len(bombs) + 1 =>
          IF player.x < 400
          THEN LastBomb'.x >= 400 /\ LastBomb'.x <= 800
          ELSE LastBomb'.x >= 0 /\ LastBomb'.x <= 400 ]_vars

\* C3 witness: a bomb spawned on the right edge of the field.
C3_Witness ==
    /\ Len(bombs) = 1
    /\ bombs[1].x = 800

\* C4: an update call made once the game is over leaves the player's
\* horizontal velocity, vertical velocity and animation at the values they had
\* when the game ended, whatever the keys and the touching-down state.
C4_UpdateFrozen ==
    [][ (gameOver /\ frame' # frame) =>
          /\ player'.velocityX = frozen.velocityX
          /\ player'.velocityY = frozen.velocityY
          /\ player'.anim = frozen.anim
          /\ player' = player ]_vars

\* C4 witness: the game is over and the last update saw left and up held with
\* the player on the ground, yet the player neither walks nor jumps.
C4_Witness ==
    /\ gameOver
    /\ cursors.left /\ cursors.up /\ player.touchingDown
    /\ player.velocityX = 0 /\ player.velocityY = 0
    /\ player.anim = "turn"

\* C5 as stated: the flag only goes from false to true, only in hitBomb, and
\* the assignment in hitBomb runs at most once in a session.
C5_AssignedOnce ==
    [][ /\ (gameOver' # gameOver => (~gameOver /\ gameOver' /\ hits' = hits + 1))
        /\ (hits' # hits => ~gameOver) ]_vars

\* C5 amended: the flag is false initially, changes only in hitBomb, only from
\* false to true, and once true stays true; hitBomb can run again when the
\* world update in flight dispatches another bomb collision.
C5_Terminal ==
    /\ ~gameOver
    /\ [][ /\ (gameOver' # gameOver => (~gameOver /\ gameOver' /\ hits' = hits + 1))
           /\ (gameOver => gameOver')
           /\ (hits' # hits => gameOver') ]_vars

\* C5 witness: hitBomb has run twice and the game is over.
C5_Witness ==
    /\ gameOver
    /\ hits = 2

C7_LeftPriority ==
    [][ (~gameOver /\ frame' # frame) =>
          /\ (cursors'.left =>
                player'.velocityX = -160 /\ player'.anim = "left")
          /\ (~cursors'.left /\ cursors'.right =>
                player'.velocityX = 160 /\ player'.anim = "right")
          /\ (~cursors'.left /\ ~cursors'.right =>
                player'.velocityX = 0 /\ player'.anim = "turn") ]_vars

\* C7 witness: both keys held, the player walks left.
C7_Witness ==
    /\ ~gameOver
    /\ cursors.left /\ cursors.right
    /\ player.velocityX = -160 /\ player.anim = "left"

\* C8: an update call sets the vertical velocity to -330 exactly when the game
\* is not over, up is down and the player touches down; otherwise it leaves
\* the vertical velocity unchanged, whatever the horizontal keys.
C8_JumpOnlyOnGround ==
    [][ frame' # frame =>
          IF ~gameOver /\ cursors'.up /\ player.touchingDown
          THEN player'.velocityY = -330
          ELSE player'.velocityY = player.velocityY ]_vars

\* C8 witness: up held while airborne and walking, the fall goes on.
C8_Witness ==
    /\ ~gameOver
    /\ cursors.up /\ cursors.right /\ ~cursors.left
    /\ ~player.touchingDown
    /\ player.velocityX = 160
    /\ player.velocityY = 5

\* C9: every spawned bomb has its body exempt from gravity, with bounce 1,
\* world-bound collision and vertical velocity 20.
C9_BombsIgnoreGravity ==
    \A i \in 1..Len(bombs) :
        /\ bombs[i].body.allowGravity = FALSE
        /\ bombs[i].bounce = 1
        /\ bombs[i].collideWorldBounds
        /\ bombs[i].velocityY = 20

\* C10: between callbacks 1 to 12 stars are active and
\* score = 120 * (number of bombs) + 10 * (12 - number of active stars).
C10_ScoreStarsBombs ==
    /\ Cardinality(ActiveStars) >= 1
    /\ Cardinality(ActiveStars) <= 12
    /\ scoreStore.score = 120 * Len(bombs) + 10 * (12 - Cardinality(ActiveStars))

\* C10 witness: two waves completed and one star of the third collected.
C10_Witness ==
    /\ Len(bombs) = 2
    /\ Cardinality(ActiveStars) = 11
    /\ scoreStore.score = 250

====
